---- MODULE Spec2Model ----
(***************************************************************************)
(* Model of jsonrpcservice: the lazily validated Request, the Success and  *)
(* Error responses, and Service.handle_request / Service.call_method.      *)
(***************************************************************************)
EXTENDS Integers, Sequences, FiniteSets, TLC

(***************************************************************************)
(* Bounds of the model.                                                    *)
(***************************************************************************)
\* longest positional params list a request carries
MaxArgs == 3

(***************************************************************************)
(* Python / JSON values.  A value is a record [t, s, n, items]: t is the   *)
(* type, s the payload of a str, n the payload of a number or bool, items  *)
(* the entries of a list (key "") or of a dict (key = member name).        *)
(* Python's None and JSON's null are the same value.                       *)
(***************************************************************************)
None == [t |-> "null", s |-> "", n |-> 0, items |-> <<>>]
Str(x) == [t |-> "str", s |-> x, n |-> 0, items |-> <<>>]
Num(k) == [t |-> "num", s |-> "", n |-> k, items |-> <<>>]
Bool(b) == [t |-> "bool", s |-> "", n |-> IF b THEN 1 ELSE 0, items |-> <<>>]
List(ns) == [t |-> "list", s |-> "", n |-> 0,
             items |-> [i \in 1..Len(ns) |-> [key |-> "", n |-> ns[i]]]]
Dict(its) == [t |-> "dict", s |-> "", n |-> 0, items |-> its]

\* a dict with no members; also the member map of every non-dict top level
EmptyMap == [k \in {} |-> None]

\* a top-level parsed request: its type and, for a dict, its members
Top(t, m) == [t |-> t, m |-> m]
NoneTop == Top("null", EmptyMap)

(***************************************************************************)
(* Exceptions.  cls is the class; code, message and data are the           *)
(* attributes JsonRpcError.__init__ sets.                                  *)
(***************************************************************************)
NoExc == [cls |-> "none", code |-> None, message |-> "", data |-> None]

JsonRpcError(code, message, data) ==
    [cls |-> "JsonRpcError", code |-> code, message |-> message, data |-> data]

ParseError(message) ==
    [cls |-> "ParseError", code |-> Num(-32700), message |-> message, data |-> None]

InvalidRequest(message) ==
    [cls |-> "InvalidRequest", code |-> Num(-32600), message |-> message, data |-> None]

MethodNotFound(message) ==
    [cls |-> "MethodNotFound", code |-> Num(-32601), message |-> message, data |-> None]

InvalidParams(message) ==
    [cls |-> "InvalidParams", code |-> Num(-32602), message |-> message, data |-> None]

\* an exception that is not a JsonRpcError; str(e) is its message
OtherError(cls, message) ==
    [cls |-> cls, code |-> None, message |-> message, data |-> None]

\* the classes that derive from JsonRpcError
JsonRpcErrorClasses ==
    {"JsonRpcError", "ParseError", "InvalidRequest", "MethodNotFound",
     "InvalidParams", "InternalError", "ApplicationError"}

\* isinstance(e, JsonRpcError)
IsJsonRpcError(e) == e.cls \in JsonRpcErrorClasses

(***************************************************************************)
(* json.loads on the raw text of a request.  A text is either malformed    *)
(* (json.loads raises ValueError with the parser's message) or the         *)
(* encoding of a top-level value.                                          *)
(***************************************************************************)
NoText == [given |-> FALSE, wf |-> FALSE, top |-> NoneTop]
Text(top) == [given |-> TRUE, wf |-> TRUE, top |-> top]
Malformed == [given |-> TRUE, wf |-> FALSE, top |-> NoneTop]

ParserMessage == "Expecting value: line 1 column 1 (char 0)"

\* json.loads(None) raises TypeError, json.loads(malformed) raises ValueError
json_loads(text) ==
    IF text.given /\ text.wf
    THEN [exc |-> NoExc, top |-> text.top]
    ELSE IF text.given
         THEN [exc |-> OtherError("ValueError", ParserMessage), top |-> NoneTop]
         ELSE [exc |-> OtherError("TypeError", "the JSON object must be str, bytes or bytearray, not NoneType"),
               top |-> NoneTop]

(***************************************************************************)
(* Request.  An object q is [raw, parsed, dict, loads, checks]:            *)
(* _raw_request, _parsed_request and _dict, and how often json.loads and   *)
(* the isinstance check of the top level have run for it.  Every accessor  *)
(* returns [exc, top, val, q]: the exception it raises (NoExc when it      *)
(* returns), the value it returns (top for a top-level value, val for a    *)
(* member) and the object after the access, since parsed_request and dict  *)
(* cache their result.                                                     *)
(***************************************************************************)
\* the runs of json.loads and of the type check are counted up to MaxCount
MaxCount == 2

Request(raw_request, parsed_request) ==
    [raw |-> raw_request, parsed |-> parsed_request, dict |-> NoneTop,
     loads |-> 0, checks |-> 0]

\* json.loads has run once more for q
Loaded(q) == [q EXCEPT !.loads = IF @ < MaxCount THEN @ + 1 ELSE @]
\* isinstance(data, dict) has run once more for q
Checked(q) == [q EXCEPT !.checks = IF @ < MaxCount THEN @ + 1 ELSE @]

\* Request.__init__ raises ValueError when neither input is given
RequestInitFails(raw_request, parsed_request) ==
    (~raw_request.given) /\ parsed_request = NoneTop

Returns(top, val, q) == [exc |-> NoExc, top |-> top, val |-> val, q |-> q]
Raises(e, q) == [exc |-> e, top |-> NoneTop, val |-> None, q |-> q]

\* evaluate x once and continue with F
Let(x, F(_)) == F(x)
\* an exception raised by res propagates, otherwise continue with F
Then(res, F(_)) == IF res.exc # NoExc THEN res ELSE F(res)

Request_parsed_request(q) ==
    IF q.parsed = NoneTop
    THEN Let(json_loads(q.raw), LAMBDA p :
            IF p.exc.cls \in {"TypeError", "ValueError"}
            THEN Raises(ParseError(p.exc.message), Loaded(q))
            ELSE Returns(p.top, None, [Loaded(q) EXCEPT !.parsed = p.top]))
    ELSE Returns(q.parsed, None, q)

\* mutant: the checked dict is not kept
Request_dict_not_kept(q) ==
    Then(Request_parsed_request(q), LAMBDA p :
        IF p.top.t # "dict"
        THEN Raises(InvalidRequest("Expected an object as request body. Batch requests are not supported."), Checked(p.q))
        ELSE Returns(p.top, None, Checked(p.q)))

Request_dict(q) ==
    IF q.dict = NoneTop
    THEN Then(Request_parsed_request(q), LAMBDA p :
            IF p.top.t # "dict"
            THEN Raises(InvalidRequest("Expected an object as request body. Batch requests are not supported."), Checked(p.q))
            ELSE Returns(p.top, None, [Checked(p.q) EXCEPT !.dict = p.top]))
    ELSE Returns(q.dict, None, q)

\* dict.get(key): None when the key is absent
Get(m, key) == IF key \in DOMAIN m THEN m[key] ELSE None

Request_id(q) ==
    Then(Request_dict(q), LAMBDA d : Returns(NoneTop, Get(d.top.m, "id"), d.q))

Request_version(q) ==
    Then(Request_dict(q), LAMBDA d :
        IF "jsonrpc" \notin DOMAIN d.top.m
        THEN Raises(InvalidRequest("Missing \"jsonrpc\" member in request."), d.q)
        ELSE Returns(NoneTop, d.top.m["jsonrpc"], d.q))

Request_method(q) ==
    Then(Request_dict(q), LAMBDA d :
        IF "method" \notin DOMAIN d.top.m
        THEN Raises(InvalidRequest("Missing \"method\" member in request."), d.q)
        ELSE IF d.top.m["method"].t # "str"
             THEN Raises(InvalidRequest("\"method\" of request must be a string."), d.q)
             ELSE Returns(NoneTop, d.top.m["method"], d.q))

Request_params(q) ==
    Then(Request_dict(q), LAMBDA d :
        IF "params" \notin DOMAIN d.top.m
        THEN Returns(NoneTop, None, d.q)
        ELSE IF d.top.m["params"].t \in {"list", "dict"}
             THEN Returns(NoneTop, d.top.m["params"], d.q)
             ELSE Raises(InvalidRequest("\"params\" of request must be either object or array if present."), d.q))

\* mutant: args are the params whenever params are given
Request_args_any_params(q) ==
    Then(Request_params(q), LAMBDA p :
        IF p.val.t \in {"list", "dict"} THEN p ELSE Returns(NoneTop, List(<<>>), p.q))

Request_args(q) ==
    Then(Request_params(q), LAMBDA p :
        IF p.val.t = "list" THEN p ELSE Returns(NoneTop, List(<<>>), p.q))

Request_kwargs(q) ==
    Then(Request_params(q), LAMBDA p :
        IF p.val.t = "dict" THEN p ELSE Returns(NoneTop, Dict(<<>>), p.q))

\* mutant: is_notification catches InvalidRequest only
IsNotificationCatches_only_invalid(e) == e.cls \in {"InvalidRequest"}

\* the exceptions Request.is_notification catches
IsNotificationCatches(e) == e.cls \in {"InvalidRequest", "ParseError"}

\* self.version == "2.0" and self.id is None
VersionAndIdSayNotification(q) ==
    Then(Request_version(q), LAMBDA v :
        IF v.val # Str("2.0")
        THEN Returns(NoneTop, Bool(FALSE), v.q)
        ELSE Then(Request_id(v.q), LAMBDA i :
                Returns(NoneTop, Bool(i.val = None), i.q)))

\* the try / except of Request.is_notification: False on a caught exception
Request_is_notification(q) ==
    Let(VersionAndIdSayNotification(q), LAMBDA n :
        IF n.exc # NoExc /\ IsNotificationCatches(n.exc)
        THEN Returns(NoneTop, Bool(FALSE), n.q)
        ELSE n)

(***************************************************************************)
(* Responses.  A response is [kind, result, code, message, data,           *)
(* exc_info]; its request is the object it was built for.                  *)
(***************************************************************************)
NoResponse ==
    [kind |-> "none", result |-> None, code |-> None, message |-> "",
     data |-> None, exc_info |-> NoExc]

SuccessResponse(result) ==
    [kind |-> "success", result |-> result, code |-> None, message |-> "",
     data |-> None, exc_info |-> NoExc]

\* exc_info defaults to True: sys.exc_info(), the exception being handled
ErrorResponse(code, message, data, handled) ==
    [kind |-> "error", result |-> None, code |-> code, message |-> message,
     data |-> data, exc_info |-> handled]

\* mutant: data is always a member of the error
ErrorObject_always_data(resp) ==
    [k \in {"message", "code", "data"} |->
        IF k = "message" THEN Str(resp.message)
        ELSE IF k = "code" THEN resp.code ELSE resp.data]

\* the error member of ErrorResponse.dict
ErrorObject(resp) ==
    IF resp.data # None
    THEN [k \in {"message", "code", "data"} |->
             IF k = "message" THEN Str(resp.message)
             ELSE IF k = "code" THEN resp.code ELSE resp.data]
    ELSE [k \in {"message", "code"} |->
             IF k = "message" THEN Str(resp.message) ELSE resp.code]

\* mutant: self.request.id is read without a try
ErrorDictCatches_nothing(e) == FALSE

\* the bare except around self.request.id catches every exception
ErrorDictCatches(e) == TRUE

ErrorResponse_dict(resp, q) ==
    Let(Request_id(q), LAMBDA i :
        [exc |-> IF i.exc # NoExc /\ ~ErrorDictCatches(i.exc) THEN i.exc ELSE NoExc,
         d |-> [k \in {"jsonrpc", "id", "error"} |->
                   IF k = "jsonrpc" THEN Str("2.0")
                   ELSE IF k = "id"
                        THEN (IF i.exc # NoExc /\ ErrorDictCatches(i.exc) THEN None ELSE i.val)
                        ELSE ErrorObject(resp)],
         q |-> i.q])

SuccessResponse_dict(resp, q) ==
    Let(Request_id(q), LAMBDA i :
        [exc |-> i.exc,
         d |-> [k \in {"jsonrpc", "id", "result"} |->
                   IF k = "jsonrpc" THEN Str("2.0")
                   ELSE IF k = "id" THEN i.val ELSE resp.result],
         q |-> i.q])

Response_dict(resp, q) ==
    IF resp.kind = "error" THEN ErrorResponse_dict(resp, q)
    ELSE SuccessResponse_dict(resp, q)

(***************************************************************************)
(* json.dumps of a response dict and json.loads of the body.  The text is  *)
(* the sequence of <<key, value>> members in the dict's insertion order;   *)
(* the empty text is the empty sequence.                                   *)
(***************************************************************************)
Pairs(order, f) ==
    LET ks == SelectSeq(order, LAMBDA k : k \in DOMAIN f)
    IN [i \in 1..Len(ks) |-> <<ks[i], f[ks[i]]>>]

Unpairs(ps) ==
    [k \in {ps[i][1] : i \in 1..Len(ps)} |->
        ps[CHOOSE i \in 1..Len(ps) : ps[i][1] = k][2]]

json_dumps(d) ==
    LET ks == SelectSeq(<<"jsonrpc", "id", "error", "result">>, LAMBDA k : k \in DOMAIN d)
    IN [i \in 1..Len(ks) |->
           <<ks[i], IF ks[i] = "error"
                    THEN Pairs(<<"message", "code", "data">>, d["error"])
                    ELSE d[ks[i]]>>]

json_loads_body(body) ==
    LET m == Unpairs(body)
    IN [k \in DOMAIN m |-> IF k = "error" THEN Unpairs(m[k]) ELSE m[k]]

EmptyBody == <<>>

\* json.dumps(self.dict)
DumpedDict(resp, q) ==
    Let(Response_dict(resp, q), LAMBDA d :
        [exc |-> d.exc,
         body |-> IF d.exc # NoExc THEN EmptyBody ELSE json_dumps(d.d),
         q |-> d.q])

\* mutant: an error is reported even for a notification
Response_body_reports_errors(resp, q) ==
    Let(Request_is_notification(q), LAMBDA n :
        IF n.exc = NoExc /\ n.val = Bool(TRUE) /\ resp.kind # "error"
        THEN [exc |-> NoExc, body |-> EmptyBody, q |-> n.q]
        ELSE DumpedDict(resp, n.q))

\* Response.body: [exc, body, q]
Response_body(resp, q) ==
    Let(Request_is_notification(q), LAMBDA n :
        IF n.exc # NoExc
        THEN [exc |-> n.exc, body |-> EmptyBody, q |-> n.q]
        ELSE IF n.val = Bool(TRUE)
             THEN [exc |-> NoExc, body |-> EmptyBody, q |-> n.q]
             ELSE DumpedDict(resp, n.q))

(***************************************************************************)
(* Callables.  params are the parameters the callable itself declares,     *)
(* sig the parameters inspect.signature reports for it (it follows         *)
(* __wrapped__, which functools.wraps sets), body what a call does.        *)
(***************************************************************************)
Callable(name, params, sig, body) ==
    [name |-> name, params |-> params, sig |-> sig, body |-> body]

ping == Callable("<lambda>", <<>>, <<>>, "ping")
what_is_foo == Callable("what_is_foo", <<>>, <<>>, "foo")
add == Callable("add", <<"a", "b">>, <<"a", "b">>, "add")
fail == Callable("fail", <<>>, <<>>, "fail")
fail_with_grace == Callable("fail_with_grace", <<>>, <<>>, "fail_with_grace")
\* wrapper(a) made by inject_arg_decorator around injected_arg(a, b)
injected_arg == Callable("injected_arg", <<"a">>, <<"a", "b">>, "injected_arg")

\* Service.__init__: no method registered
NoMethods == [k \in {} |-> ping]

\* the registry tests/test_usage.py builds at import
UsageMethods ==
    [k \in {"ping", "foo", "add", "fail", "fail_with_grace", "injected_arg"} |->
        CASE k = "ping" -> ping
          [] k = "foo" -> what_is_foo
          [] k = "add" -> add
          [] k = "fail" -> fail
          [] k = "fail_with_grace" -> fail_with_grace
          [] k = "injected_arg" -> injected_arg]

\* get_donut of tests/test_extensibility.py.  Argument values are numbers:
\* the languages are numbered, and so are the messages of the result
get_donut == Callable("get_donut", <<"language">>, <<"language">>, "get_donut")
Language(n) == CASE n = 1 -> "en" [] n = 2 -> "cs" [] OTHER -> "lg"
\* {"message": <message number n>}
Donut(n) == Dict(<<[key |-> "message", n |-> n]>>)

\* the registry tests/test_extensibility.py builds at import
DonutMethods == [k \in {"get_donut"} |-> get_donut]

\* what a handler may raise that is not a JsonRpcError
OtherExceptions ==
    {OtherError("NameError", "name 'i_dont_know_what_i_am_doing' is not defined"),
     OtherError("TypeError", "unsupported operand"),
     OtherError("SystemExit", "")}

\* the JsonRpcErrors a handler may raise: any code, message and data
HandlerErrors ==
    {JsonRpcError(Num(c), m, d) :
        c \in {-13, -32603}, m \in {"Graceful as a fail whale.", "Internal error."},
        d \in {None, Str("Graceful!"), Num(0)}}

Keys(kwargs) == {kwargs.items[i].key : i \in 1..Len(kwargs.items)}
Min(S) == CHOOSE x \in S : \A y \in S : x <= y

\* the value bound to parameter number i of params
Arg(params, i, args, kwargs) ==
    IF i <= Len(args.items)
    THEN args.items[i].n
    ELSE kwargs.items[CHOOSE j \in 1..Len(kwargs.items) : kwargs.items[j].key = params[i]].n

\* inspect.Signature.bind(*args, **kwargs) for required positional-or-keyword
\* parameters: the message of the TypeError it raises, "" when it binds
Bind(sig, args, kwargs) ==
    LET nargs == Len(args.items)
        twice == {i \in 1..nargs : i <= Len(sig) /\ sig[i] \in Keys(kwargs)}
        missing == {i \in (nargs + 1)..Len(sig) : sig[i] \notin Keys(kwargs)}
        extra == {j \in 1..Len(kwargs.items) :
                     \A i \in 1..Len(sig) : sig[i] # kwargs.items[j].key}
    IN IF twice # {}
       THEN "multiple values for argument '" \o sig[Min(twice)] \o "'"
       ELSE IF nargs > Len(sig)
            THEN "too many positional arguments"
            ELSE IF missing # {}
                 THEN "missing a required argument: '" \o sig[Min(missing)] \o "'"
                 ELSE IF extra # {}
                      THEN "got an unexpected keyword argument '" \o kwargs.items[Min(extra)].key \o "'"
                      ELSE ""

\* method(*args, **kwargs): the outcomes [exc, val] of the call.  Python
\* matches the arguments against the callable's own parameters before the
\* body runs and raises TypeError when they do not match.
Call(f, args, kwargs) ==
    IF Bind(f.params, args, kwargs) # ""
    THEN {[exc |-> OtherError("TypeError", f.name \o "() got arguments it does not take"), val |-> None]}
    ELSE CASE f.body = "ping" -> {[exc |-> NoExc, val |-> Str("pong")]}
           [] f.body = "foo" -> {[exc |-> NoExc, val |-> Str("Foo is not bar.")]}
           [] f.body = "add" ->
                {[exc |-> NoExc,
                  val |-> Num(Arg(f.params, 1, args, kwargs) + Arg(f.params, 2, args, kwargs))]}
           [] f.body = "injected_arg" ->
                {[exc |-> NoExc, val |-> Num(Arg(f.params, 1, args, kwargs) + 10)]}
           [] f.body = "fail" -> {[exc |-> e, val |-> None] : e \in OtherExceptions}
           [] f.body = "fail_with_grace" -> {[exc |-> e, val |-> None] : e \in HandlerErrors}
           [] f.body = "get_donut" ->
                IF Language(Arg(f.params, 1, args, kwargs)) \in {"en", "cs"}
                THEN {[exc |-> NoExc, val |-> Donut(Arg(f.params, 1, args, kwargs))]}
                ELSE {[exc |-> OtherError("CustomException",
                                          "Unknown language \"" \o Language(Arg(f.params, 1, args, kwargs)) \o "\"."),
                       val |-> None]}

(***************************************************************************)
(* The requests a caller can construct.                                    *)
(***************************************************************************)
\* marks a member the request does not have
Absent == [t |-> "absent", s |-> "", n |-> 0, items |-> <<>>]

VersionValues == {Absent, Str("2.0"), Str("1.0"), Num(2)}
IdValues == {Absent, None, Num(0), Num(321)}
MethodValues ==
    {Absent, Num(1)} \cup
    {Str(m) : m \in {"ping", "add", "fail", "fail_with_grace", "injected_arg", "missing"}}

ParamNames == <<"a", "b", "z">>
DictOver(S) ==
    LET ks == SelectSeq(ParamNames, LAMBDA k : k \in S)
    IN Dict([i \in 1..Len(ks) |-> [key |-> ks[i], n |-> i]])
ParamsValues ==
    {Absent, Bool(FALSE)} \cup
    {List([i \in 1..k |-> i]) : k \in 0..MaxArgs} \cup
    {DictOver(S) : S \in SUBSET {"a", "b", "z"}}

MemberOf(k, v, i, m, p) ==
    CASE k = "jsonrpc" -> v [] k = "id" -> i [] k = "method" -> m [] k = "params" -> p

DictTop(v, i, m, p) ==
    Top("dict", [k \in {x \in {"jsonrpc", "id", "method", "params"} :
                          MemberOf(x, v, i, m, p) # Absent} |->
                    MemberOf(k, v, i, m, p)])

DictTops ==
    {DictTop(v, i, m, p) :
        v \in VersionValues, i \in IdValues, m \in MethodValues, p \in ParamsValues}

\* a batch array and a bare string: top levels that are not an object
OtherTops == {Top("list", EmptyMap), Top("str", EmptyMap)}

\* Request(raw_request=...) and Request(parsed_request=...)
Inputs ==
    {[raw |-> NoText, parsed |-> t] : t \in DictTops \cup OtherTops} \cup
    {[raw |-> Text(t), parsed |-> NoneTop] : t \in DictTops \cup OtherTops \cup {NoneTop}} \cup
    {[raw |-> Malformed, parsed |-> NoneTop]}

(***************************************************************************)
(* The state.                                                              *)
(***************************************************************************)
Reqs == {"r1", "r2"}

VARIABLES
    mode,      \* "single": one request; "pair": r1, then r2, same input
    methods,   \* Service._methods
    given,     \* the input each Request was constructed from
    req,       \* the Request objects
    pc,        \* where handle_request(req[r]) is
    call,      \* its locals: method name, args, kwargs, callable, result, exception
    resp,      \* the Response handle_request returned
    calls,     \* how many times the handler was invoked
    raised,    \* the exception the handler raised, if it did
    notif,     \* the last outcome of reading req[r].is_notification
    out,       \* the outcome of reading resp[r].dict and resp[r].body
    reg,       \* the last registration call: what it was given and how it ended
    acc,       \* a Request under construction and the reads of one of its fields
    app,       \* the last ApplicationError(code, ...) and how constructing it ended
    svc        \* the class of the service and how often its hooks have run

vars == <<mode, methods, given, req, pc, call, resp, calls, raised, notif, out, reg, acc, app, svc>>

\* what handle_request and the reads of a request or response never touch
aux == <<reg, acc, app, svc>>

(***************************************************************************)
(* Registration.  A value handed to a registration call is a function or   *)
(* something that is not callable; a source of add_methods is a list, a    *)
(* dict or any other object, given by its items in iteration order (for an *)
(* object: its attributes in the order of dir()).                          *)
(***************************************************************************)
Fn(f) == [callable |-> TRUE, has_name |-> TRUE, f |-> f]
\* the int 5: not callable and without __name__
Five == [callable |-> FALSE, has_name |-> FALSE, f |-> ping]

Item(name, v) == [name |-> name, v |-> v]
Source(kind, items) == [kind |-> kind, items |-> items]

\* the call a registry was last changed or read by
RegOp(kind, name, f, src, prefix) ==
    [kind |-> kind, name |-> name, f |-> f, src |-> src, prefix |-> prefix]
NoRegOp == RegOp("none", "", ping, Source("list", <<>>), "")

\* the dict get_methods returned, as its caller holds it
NoSnapshot == [held |-> FALSE, shared |-> FALSE, d |-> NoMethods]

NoReg == [n |-> 0, op |-> NoRegOp, err |-> "", before |-> NoMethods, snap |-> NoSnapshot]

\* what an access returned or raised
Outcome(res) == [exc |-> res.exc, top |-> res.top, val |-> res.val]

\* no Request has been constructed; field is the one whose reads are followed
NoAcc ==
    [made |-> "no", field |-> "", n |-> 0,
     first |-> Outcome(Raises(NoExc, NoneTop)), last |-> Outcome(Raises(NoExc, NoneTop))]

\* no ApplicationError has been constructed
NoApp == [done |-> FALSE, code |-> 0, raised |-> "", e |-> NoExc]

\* a service has a class and, per hook, the number of times it has run
ServiceOf(cls) == [cls |-> cls, before_calls |-> 0, after_calls |-> 0]
PlainService == ServiceOf("Service")

NoCall ==
    [method_name |-> None, args |-> None, kwargs |-> None, func |-> ping,
     result |-> None, exc |-> NoExc]

NoOut == [read |-> FALSE, exc |-> NoExc, body |-> EmptyBody, dexc |-> NoExc, d |-> EmptyMap]

InitWith(md, active) ==
    /\ mode = md
    /\ methods \in {NoMethods, UsageMethods}
    /\ \E i \in Inputs :
          /\ ~RequestInitFails(i.raw, i.parsed)
          /\ given = [r \in Reqs |-> i]
          /\ req = [r \in Reqs |-> Request(i.raw, i.parsed)]
    /\ pc = [r \in Reqs |-> IF r \in active THEN "received" ELSE "idle"]
    /\ call = [r \in Reqs |-> NoCall]
    /\ resp = [r \in Reqs |-> NoResponse]
    /\ calls = [r \in Reqs |-> 0]
    /\ raised = [r \in Reqs |-> NoExc]
    /\ notif = [r \in Reqs |-> "unread"]
    /\ out = [r \in Reqs |-> NoOut]
    /\ reg = NoReg
    /\ acc = NoAcc
    /\ app = NoApp
    /\ svc = PlainService

\* Request(): neither raw_request nor parsed_request
NeitherInput == [raw |-> NoText, parsed |-> NoneTop]

\* a Service as Service.__init__ leaves it; no request is being handled
Idle(md) ==
    /\ mode = md
    /\ methods = NoMethods
    /\ given = [r \in Reqs |-> NeitherInput]
    /\ req = [r \in Reqs |-> Request(Malformed, NoneTop)]
    /\ pc = [r \in Reqs |-> "idle"]
    /\ call = [r \in Reqs |-> NoCall]
    /\ resp = [r \in Reqs |-> NoResponse]
    /\ calls = [r \in Reqs |-> 0]
    /\ raised = [r \in Reqs |-> NoExc]
    /\ notif = [r \in Reqs |-> "unread"]
    /\ out = [r \in Reqs |-> NoOut]
    /\ reg = NoReg
    /\ acc = NoAcc
    /\ app = NoApp
    /\ svc = PlainService

Init == InitWith("single", {"r1"})

\* handle_request is synchronous: in a pair, r2 is dispatched after r1
Turn(r) ==
    /\ pc[r] # "idle"
    /\ (mode = "pair" /\ r = "r2") => (pc["r1"] \in {"responded", "raised"} /\ out["r1"].read)

\* mutant: the exception being handled is kept in one place for all dispatches
Throw_shared(r, e, q) ==
    /\ req' = [req EXCEPT ![r] = q]
    /\ call' = [x \in Reqs |-> [call[x] EXCEPT !.exc = e]]
    /\ pc' = [pc EXCEPT ![r] = "except"]

\* an exception leaves the try block of handle_request
Throw(r, e, q) ==
    /\ req' = [req EXCEPT ![r] = q]
    /\ call' = [call EXCEPT ![r].exc = e]
    /\ pc' = [pc EXCEPT ![r] = "except"]

(***************************************************************************)
(* Service.handle_request, statement by statement.                         *)
(***************************************************************************)
\* mutant: the version is compared as a number
VersionSupported_as_number(version) == version \in {Str("2.0"), Num(2)}

VersionSupported(version) == version = Str("2.0")

CheckVersion(r) ==
    /\ Turn(r) /\ pc[r] = "received"
    /\ LET v == Request_version(req[r])
       IN IF v.exc # NoExc
          THEN Throw(r, v.exc, v.q)
          ELSE IF ~VersionSupported(v.val)
               THEN Throw(r, InvalidRequest("Only JSON-RPC version \"2.0\" is supported."), v.q)
               ELSE /\ req' = [req EXCEPT ![r] = v.q]
                    /\ pc' = [pc EXCEPT ![r] = "versionChecked"]
                    /\ call' = call
    /\ UNCHANGED <<aux, mode, methods, given, resp, calls, raised, notif, out>>

\* mutant: the method is looked up as soon as its name is read
ReadMethod_and_look_up(r) ==
    /\ Turn(r) /\ pc[r] = "versionChecked"
    /\ LET m == Request_method(req[r])
       IN IF m.exc # NoExc
          THEN Throw(r, m.exc, m.q)
          ELSE IF m.val.s \notin DOMAIN methods
               THEN Throw(r, MethodNotFound("Method \"" \o m.val.s \o "\" is not defined."), m.q)
               ELSE /\ req' = [req EXCEPT ![r] = m.q]
                    /\ call' = [call EXCEPT ![r].method_name = m.val]
                    /\ pc' = [pc EXCEPT ![r] = "methodRead"]
    /\ UNCHANGED <<aux, mode, methods, given, resp, calls, raised, notif, out>>

ReadMethod(r) ==
    /\ Turn(r) /\ pc[r] = "versionChecked"
    /\ LET m == Request_method(req[r])
       IN IF m.exc # NoExc
          THEN Throw(r, m.exc, m.q)
          ELSE /\ req' = [req EXCEPT ![r] = m.q]
               /\ call' = [call EXCEPT ![r].method_name = m.val]
               /\ pc' = [pc EXCEPT ![r] = "methodRead"]
    /\ UNCHANGED <<aux, mode, methods, given, resp, calls, raised, notif, out>>

ReadArgs(r) ==
    /\ Turn(r) /\ pc[r] = "methodRead"
    /\ LET a == Request_args(req[r])
           k == Request_kwargs(a.q)
       IN IF a.exc # NoExc
          THEN Throw(r, a.exc, a.q)
          ELSE IF k.exc # NoExc
               THEN Throw(r, k.exc, k.q)
               ELSE /\ req' = [req EXCEPT ![r] = k.q]
                    /\ call' = [call EXCEPT ![r].args = a.val, ![r].kwargs = k.val]
                    /\ pc' = [pc EXCEPT ![r] = "argsRead"]
    /\ UNCHANGED <<aux, mode, methods, given, resp, calls, raised, notif, out>>

(***************************************************************************)
(* Service.call_method, statement by statement.                            *)
(***************************************************************************)
MethodDefined(method_name, registry) == method_name.s \in DOMAIN registry

\* mutant: MethodNotFound keeps its default message
NotDefinedMessage_default(name) == "Method not found"

\* 'Method "{}" is not defined.'.format(method_name)
NotDefinedMessage(name) == "Method \"" \o name \o "\" is not defined."

LookupMethod(r) ==
    /\ Turn(r) /\ pc[r] = "argsRead"
    /\ IF ~MethodDefined(call[r].method_name, methods)
       THEN Throw(r, MethodNotFound(NotDefinedMessage(call[r].method_name.s)), req[r])
       ELSE /\ call' = [call EXCEPT ![r].func = methods[call[r].method_name.s]]
            /\ pc' = [pc EXCEPT ![r] = "methodResolved"]
            /\ req' = req
    /\ UNCHANGED <<aux, mode, methods, given, resp, calls, raised, notif, out>>

\* inspect.signature(method).bind(*args, **kwargs)
BindError(f, args, kwargs) == Bind(f.sig, args, kwargs)

BindArgs(r) ==
    /\ Turn(r) /\ pc[r] = "methodResolved"
    /\ LET msg == BindError(call[r].func, call[r].args, call[r].kwargs)
       IN IF msg # ""
          THEN Throw(r, InvalidParams(msg), req[r])
          ELSE /\ pc' = [pc EXCEPT ![r] = "argsBound"]
               /\ UNCHANGED <<req, call>>
    /\ UNCHANGED <<aux, mode, methods, given, resp, calls, raised, notif, out>>

\* what leaves self.call_method when the method raised e: CustomService
\* overrides call_method and turns a CustomException into a JsonRpcError
call_method_raises(service, e) ==
    IF service.cls = "CustomService" /\ e.cls = "CustomException"
    THEN JsonRpcError(Num(-2288), "There is some custom problem.", Str(e.message))
    ELSE e

\* return method(*args, **kwargs)
Invoke(r) ==
    /\ Turn(r) /\ pc[r] = "argsBound"
    /\ \E o \in Call(call[r].func, call[r].args, call[r].kwargs) :
          /\ calls' = [calls EXCEPT ![r] = @ + 1]
          /\ raised' = [raised EXCEPT ![r] = o.exc]
          /\ IF o.exc # NoExc
             THEN Throw(r, call_method_raises(svc, o.exc), req[r])
             ELSE /\ call' = [call EXCEPT ![r].result = o.val]
                  /\ pc' = [pc EXCEPT ![r] = "invoked"]
                  /\ req' = req
    /\ UNCHANGED <<aux, mode, methods, given, resp, notif, out>>

\* return SuccessResponse(request, <result of call_method>)
ReturnSuccess(r) ==
    /\ Turn(r) /\ pc[r] = "invoked"
    /\ resp' = [resp EXCEPT ![r] = SuccessResponse(call[r].result)]
    /\ pc' = [pc EXCEPT ![r] = "responded"]
    /\ UNCHANGED <<aux, mode, methods, given, req, call, calls, raised, notif, out>>

\* mutant: "except Exception:" in place of the bare except
BareExceptCatches_Exception(e) == e.cls \notin {"SystemExit", "KeyboardInterrupt"}

\* the bare except clause catches every exception
BareExceptCatches(e) == TRUE

\* mutant: the internal error carries InternalError's default message
handle_exception_default_message(e) ==
    IF IsJsonRpcError(e)
    THEN ErrorResponse(e.code, e.message, e.data, e)
    ELSE ErrorResponse(Num(-32603), "Internal error", None, e)

\* mutant: the JsonRpcError's data is not passed on
handle_exception_drops_data(e) ==
    IF IsJsonRpcError(e)
    THEN ErrorResponse(e.code, e.message, None, e)
    ELSE ErrorResponse(Num(-32603), "Internal error.", None, e)

\* mutant: a TypeError of the method is reported like one of the binding
handle_exception_type_error_as_params(e) ==
    IF IsJsonRpcError(e)
    THEN ErrorResponse(e.code, e.message, e.data, e)
    ELSE IF e.cls = "TypeError"
         THEN ErrorResponse(Num(-32602), e.message, None, e)
         ELSE ErrorResponse(Num(-32603), "Internal error.", None, e)

\* mutant: the internal error reports str(e)
handle_exception_leaks(e) ==
    IF IsJsonRpcError(e)
    THEN ErrorResponse(e.code, e.message, e.data, e)
    ELSE ErrorResponse(Num(-32603), e.message, None, e)

\* the except clauses of handle_request: the response returned for e,
\* NoResponse when no clause catches e
handle_exception(e) ==
    IF IsJsonRpcError(e)
    THEN ErrorResponse(e.code, e.message, e.data, e)
    ELSE IF BareExceptCatches(e)
         THEN ErrorResponse(Num(-32603), "Internal error.", None, e)
         ELSE NoResponse

Except(r) ==
    /\ Turn(r) /\ pc[r] = "except"
    /\ resp' = [resp EXCEPT ![r] = handle_exception(call[r].exc)]
    /\ pc' = [pc EXCEPT ![r] = IF handle_exception(call[r].exc) = NoResponse
                              THEN "raised" ELSE "responded"]
    /\ UNCHANGED <<aux, mode, methods, given, req, call, calls, raised, notif, out>>

(***************************************************************************)
(* What the caller reads: request.is_notification at any time, and          *)
(* response.dict and response.body once handle_request has returned.       *)
(***************************************************************************)
IsNotification(r) ==
    /\ pc[r] # "idle"
    /\ LET n == Request_is_notification(req[r])
       IN /\ req' = [req EXCEPT ![r] = n.q]
          /\ notif' = [notif EXCEPT ![r] =
                          IF n.exc # NoExc THEN "raised"
                          ELSE IF n.val = Bool(TRUE) THEN "True" ELSE "False"]
    /\ UNCHANGED <<aux, mode, methods, given, pc, call, resp, calls, raised, out>>

ReadBody(r) ==
    /\ Turn(r) /\ pc[r] = "responded" /\ ~out[r].read
    /\ LET d == Response_dict(resp[r], req[r])
           b == Response_body(resp[r], d.q)
       IN /\ req' = [req EXCEPT ![r] = b.q]
          /\ out' = [out EXCEPT ![r] =
                        [read |-> TRUE, exc |-> b.exc, body |-> b.body,
                         dexc |-> d.exc, d |-> d.d]]
    /\ UNCHANGED <<aux, mode, methods, given, pc, call, resp, calls, raised, notif>>

Step(r) ==
    \/ CheckVersion(r) \/ ReadMethod(r) \/ ReadArgs(r)
    \/ LookupMethod(r) \/ BindArgs(r) \/ Invoke(r)
    \/ ReturnSuccess(r) \/ Except(r)

Next == \E r \in Reqs : Step(r) \/ IsNotification(r) \/ ReadBody(r)

Spec == Init /\ [][Next]_vars

\* handle_request runs to its return without a suspension point
LiveSpec == Spec /\ \A r \in Reqs : WF_vars(Step(r))

\* the same request dispatched twice against the same registry
InitPair == InitWith("pair", Reqs)
SpecPair == InitPair /\ [][Next]_vars

(***************************************************************************)
(* Concurrent dispatch: two handle_request calls on two Request objects    *)
(* and one Service, their steps interleaved in any way.                    *)
(***************************************************************************)
ConcTops ==
    {DictTop(v, i, m, p) :
        v \in {Str("2.0"), Str("1.0")}, i \in {Absent, Num(321)},
        m \in {Str(n) : n \in {"add", "fail", "fail_with_grace", "missing"}},
        p \in {Bool(FALSE), List(<<1, 2>>)}}

ConcInputs ==
    {[raw |-> Text(t), parsed |-> NoneTop] : t \in ConcTops} \cup
    {[raw |-> Malformed, parsed |-> NoneTop]}

\* registration has finished: the registry of tests/test_usage.py
InitConc ==
    /\ mode = "concurrent"
    /\ methods = UsageMethods
    /\ \E i1 \in ConcInputs, i2 \in ConcInputs :
          /\ given = [r \in Reqs |-> IF r = "r1" THEN i1 ELSE i2]
          /\ req = [r \in Reqs |-> IF r = "r1" THEN Request(i1.raw, i1.parsed)
                                   ELSE Request(i2.raw, i2.parsed)]
    /\ pc = [r \in Reqs |-> "received"]
    /\ call = [r \in Reqs |-> NoCall]
    /\ resp = [r \in Reqs |-> NoResponse]
    /\ calls = [r \in Reqs |-> 0]
    /\ raised = [r \in Reqs |-> NoExc]
    /\ notif = [r \in Reqs |-> "unread"]
    /\ out = [r \in Reqs |-> NoOut]
    /\ reg = NoReg
    /\ acc = NoAcc
    /\ app = NoApp
    /\ svc = PlainService

SpecConc == InitConc /\ [][Next]_vars

(***************************************************************************)
(* handle_request as one call on one request: the responses it can return, *)
(* one for each thing the method can do when it is called.                 *)
(***************************************************************************)
\* self.call_method(request, method_name, args, kwargs): what it raises or returns
call_method(service, registry, method_name, args, kwargs) ==
    IF ~MethodDefined(method_name, registry)
    THEN {[exc |-> MethodNotFound(NotDefinedMessage(method_name.s)), val |-> None]}
    ELSE IF BindError(registry[method_name.s], args, kwargs) # ""
         THEN {[exc |-> InvalidParams(BindError(registry[method_name.s], args, kwargs)),
                val |-> None]}
         ELSE {[exc |-> call_method_raises(service, o.exc), val |-> o.val] :
                  o \in Call(registry[method_name.s], args, kwargs)}

\* the body of the try block of handle_request
TryBlock(service, registry, q) ==
    Let(Request_version(q), LAMBDA v :
        IF v.exc # NoExc THEN {[exc |-> v.exc, val |-> None]}
        ELSE IF ~VersionSupported(v.val)
        THEN {[exc |-> InvalidRequest("Only JSON-RPC version \"2.0\" is supported."), val |-> None]}
        ELSE Let(Request_method(v.q), LAMBDA m :
            IF m.exc # NoExc THEN {[exc |-> m.exc, val |-> None]}
            ELSE Let(Request_args(m.q), LAMBDA a :
                IF a.exc # NoExc THEN {[exc |-> a.exc, val |-> None]}
                ELSE Let(Request_kwargs(a.q), LAMBDA k :
                    IF k.exc # NoExc THEN {[exc |-> k.exc, val |-> None]}
                    ELSE call_method(service, registry, m.val, a.val, k.val)))))

handle_request(service, registry, q) ==
    {IF o.exc # NoExc THEN handle_exception(o.exc) ELSE SuccessResponse(o.val) :
        o \in TryBlock(service, registry, q)}

(***************************************************************************)
(* CustomService of tests/test_extensibility.py: a subclass that defines   *)
(* before_call and after_call and overrides call_method.  handle_request   *)
(* is inherited, so a request is handled by the actions above; svc counts  *)
(* the runs of the two hooks.                                              *)
(***************************************************************************)
LanguageParams(n) == Dict(<<[key |-> "language", n |-> n]>>)

CustomTops ==
    {DictTop(v, i, m, p) :
        v \in {Str("2.0"), Str("1.0")}, i \in IdValues,
        m \in {Str("get_donut"), Str("missing")},
        p \in {Absent} \cup {LanguageParams(n) : n \in 1..3} \cup {List(<<n>>) : n \in 1..3}}

CustomInputs ==
    {[raw |-> NoText, parsed |-> t] : t \in CustomTops} \cup
    {[raw |-> Text(t), parsed |-> NoneTop] : t \in CustomTops} \cup
    {[raw |-> Malformed, parsed |-> NoneTop]}

\* service = CustomService('en') with get_donut registered
InitCustom ==
    /\ mode = "single"
    /\ methods = DonutMethods
    /\ \E i \in CustomInputs :
          /\ given = [r \in Reqs |-> i]
          /\ req = [r \in Reqs |-> Request(i.raw, i.parsed)]
    /\ pc = [r \in Reqs |-> IF r = "r1" THEN "received" ELSE "idle"]
    /\ call = [r \in Reqs |-> NoCall]
    /\ resp = [r \in Reqs |-> NoResponse]
    /\ calls = [r \in Reqs |-> 0]
    /\ raised = [r \in Reqs |-> NoExc]
    /\ notif = [r \in Reqs |-> "unread"]
    /\ out = [r \in Reqs |-> NoOut]
    /\ reg = NoReg
    /\ acc = NoAcc
    /\ app = NoApp
    /\ svc = ServiceOf("CustomService")

SpecCustom == InitCustom /\ [][Next]_vars

(***************************************************************************)
(* Request: construction and reads of its derived fields.                  *)
(***************************************************************************)
Fields ==
    {"parsed_request", "dict", "id", "version", "method", "params", "args",
     "kwargs", "is_notification"}

Field(f, q) ==
    CASE f = "parsed_request" -> Request_parsed_request(q)
      [] f = "dict" -> Request_dict(q)
      [] f = "id" -> Request_id(q)
      [] f = "version" -> Request_version(q)
      [] f = "method" -> Request_method(q)
      [] f = "params" -> Request_params(q)
      [] f = "args" -> Request_args(q)
      [] f = "kwargs" -> Request_kwargs(q)
      [] f = "is_notification" -> Request_is_notification(q)

\* Request(raw_request=..., parsed_request=...)
BothInputs ==
    {[raw |-> t, parsed |-> p] :
        t \in {Malformed, Text(Top("list", EmptyMap)),
               Text(DictTop(Str("2.0"), Num(321), Str("ping"), Absent))},
        p \in {Top("str", EmptyMap),
               DictTop(Str("2.0"), None, Str("add"), List(<<1, 2>>))}}

ConstructInputs == Inputs \cup {NeitherInput} \cup BothInputs

\* Request.__init__
Construct ==
    /\ acc.made = "no"
    /\ \E i \in ConstructInputs, f \in Fields :
          /\ given' = [r \in Reqs |-> i]
          /\ IF RequestInitFails(i.raw, i.parsed)
             THEN /\ acc' = [acc EXCEPT !.made = "ValueError"]
                  /\ UNCHANGED req
             ELSE /\ acc' = [acc EXCEPT !.made = "ok", !.field = f]
                  /\ req' = [r \in Reqs |-> Request(i.raw, i.parsed)]
    /\ UNCHANGED <<mode, methods, pc, call, resp, calls, raised, notif, out, reg, app, svc>>

\* the reads of the followed field are counted up to MaxCount
Read(a, res) ==
    [a EXCEPT !.n = IF @ < MaxCount THEN @ + 1 ELSE @,
              !.first = IF a.n = 0 THEN Outcome(res) ELSE @,
              !.last = Outcome(res)]

\* one read of a derived field of the Request
Access(f) ==
    /\ acc.made = "ok"
    /\ req' = [req EXCEPT !["r1"] = Field(f, req["r1"]).q]
    /\ acc' = IF f = acc.field THEN Read(acc, Field(f, req["r1"])) ELSE acc
    /\ UNCHANGED <<mode, methods, given, pc, call, resp, calls, raised, notif, out, reg, app, svc>>

NextAccess == Construct \/ \E f \in Fields : Access(f)

InitAccess == Idle("access")

SpecAccess == InitAccess /\ [][NextAccess]_vars

(***************************************************************************)
(* ApplicationError: the codes JSON-RPC 2.0 reserves are refused.          *)
(***************************************************************************)
ReservedHigh == -32000
ReservedLow == -32768

\* how far below and above the reserved range the codes tried reach
CodeMargin == 2

\* mutant: the two ends of the range are not reserved
ApplicationError_open_range(code, message, data) ==
    IF ReservedHigh > code /\ code > ReservedLow
    THEN [done |-> TRUE, code |-> code, raised |-> "ValueError", e |-> NoExc]
    ELSE [done |-> TRUE, code |-> code, raised |-> "",
          e |-> [cls |-> "ApplicationError", code |-> Num(code), message |-> message, data |-> data]]

\* ApplicationError(code, message, data): raises ValueError or is the error
ApplicationError(code, message, data) ==
    IF ReservedHigh >= code /\ code >= ReservedLow
    THEN [done |-> TRUE, code |-> code, raised |-> "ValueError", e |-> NoExc]
    ELSE [done |-> TRUE, code |-> code, raised |-> "",
          e |-> [cls |-> "ApplicationError", code |-> Num(code), message |-> message, data |-> data]]

Codes == ((ReservedLow - CodeMargin)..(ReservedHigh + CodeMargin)) \cup {-2288, -13, 0, 1}

NewApplicationError ==
    /\ \E code \in Codes, message \in {"Application error", "There is some custom problem."} :
          app' = ApplicationError(code, message, None)
    /\ UNCHANGED <<mode, methods, given, req, pc, call, resp, calls, raised, notif, out, reg, acc, svc>>

NextError == NewApplicationError

InitError == Idle("error")

SpecError == InitError /\ [][NextError]_vars

(***************************************************************************)
(* Service: registering methods.  Every operation returns the exception it *)
(* raised ("" when none) and the registry it leaves.                       *)
(***************************************************************************)
MaxOps == 3

Put(d, k, v) == [x \in DOMAIN d \cup {k} |-> IF x = k THEN v ELSE d[x]]
Remove(d, k) == [x \in DOMAIN d \ {k} |-> d[x]]

Registered(err, registry) == [err |-> err, methods |-> registry]

\* mutant: a registered name is given its new callable
add_method_replaces(registry, method_name, func) ==
    Registered("", Put(registry, method_name, func))

add_method(registry, method_name, func) ==
    IF method_name \in DOMAIN registry
    THEN Registered("ValueError", registry)
    ELSE Registered("", Put(registry, method_name, func))

\* @service.method: the function is registered under its own name
Service_method(registry, func) == add_method(registry, func.name, func)

\* @service.method('name')
Service_method_named(registry, method_name, func) == add_method(registry, method_name, func)

\* str.startswith('_') on the attribute names of the sources below
StartsWithUnderscore(name) == name \in {"_hidden", "__name__"}

RECURSIVE DictOfList(_, _)
\* {method.__name__: method for method in methods}: a later method of the same
\* name takes the place of the earlier one
DictOfList(items, sofar) ==
    IF items = <<>> THEN sofar
    ELSE LET name == Head(items).v.f.name
             at == {i \in 1..Len(sofar) : sofar[i].name = name}
         IN DictOfList(Tail(items),
                       IF at = {} THEN Append(sofar, Item(name, Head(items).v))
                       ELSE [i \in 1..Len(sofar) |->
                                IF i \in at THEN Item(name, Head(items).v) ELSE sofar[i]])

\* the dict add_methods makes of its source, or the exception making it raises
MethodsOf(src) ==
    CASE src.kind = "list" ->
            IF \E i \in 1..Len(src.items) : ~src.items[i].v.has_name
            THEN [err |-> "AttributeError", items |-> <<>>]
            ELSE [err |-> "", items |-> DictOfList(src.items, <<>>)]
      [] src.kind = "dict" -> [err |-> "", items |-> src.items]
      [] src.kind = "object" ->
            [err |-> "", items |-> SelectSeq(src.items, LAMBDA it : ~StartsWithUnderscore(it.name))]

RECURSIVE AddEach_goes_on(_, _, _)
\* mutant: after an exception of add_method the loop goes on with the rest
AddEach_goes_on(registry, items, prefix) ==
    IF items = <<>> THEN Registered("", registry)
    ELSE IF ~Head(items).v.callable THEN AddEach_goes_on(registry, Tail(items), prefix)
    ELSE LET added == add_method(registry, prefix \o Head(items).name, Head(items).v.f)
         IN IF added.err # ""
            THEN Registered(added.err, AddEach_goes_on(registry, Tail(items), prefix).methods)
            ELSE AddEach_goes_on(added.methods, Tail(items), prefix)

RECURSIVE AddEach(_, _, _)
\* the loop of add_methods: an exception of add_method ends it
AddEach(registry, items, prefix) ==
    IF items = <<>> THEN Registered("", registry)
    ELSE IF ~Head(items).v.callable THEN AddEach(registry, Tail(items), prefix)
    ELSE LET added == add_method(registry, prefix \o Head(items).name, Head(items).v.f)
         IN IF added.err # "" THEN added
            ELSE AddEach(added.methods, Tail(items), prefix)

add_methods(registry, src, prefix) ==
    LET named == MethodsOf(src)
    IN IF named.err # "" THEN Registered(named.err, registry)
       ELSE AddEach(registry, named.items, prefix)

\* mutant: the registry's own dict is handed out
get_methods_same_dict(registry) == [held |-> TRUE, shared |-> TRUE, d |-> registry]

\* self._methods.copy(): a new dict with the same entries
get_methods(registry) == [held |-> TRUE, shared |-> FALSE, d |-> registry]

\* the functions tests/test_service.py registers
foo == Callable("foo", <<>>, <<>>, "test_decorator.foo")
bar == Callable("bar", <<>>, <<>>, "test_decorator.bar")
other_foo == Callable("foo", <<>>, <<>>, "test_add_method.foo")

RegCallables == {foo, bar, other_foo}
RegNames == {"foo", "foolific"}
RegPrefixes == {"", "foo."}

RegSources ==
    { Source("list", <<Item("", Fn(foo)), Item("", Fn(bar))>>),
      Source("list", <<Item("", Fn(foo)), Item("", Fn(other_foo))>>),
      Source("list", <<Item("", Fn(bar)), Item("", Five)>>),
      Source("dict", <<Item("foo", Fn(foo)), Item("bar", Fn(bar))>>),
      Source("dict", <<Item("bar", Fn(bar)), Item("foo", Fn(foo)),
                       Item("foolific", Fn(other_foo))>>),
      Source("dict", <<Item("foolific", Fn(other_foo)), Item("five", Five),
                       Item("_hidden", Fn(bar))>>),
      Source("object", <<Item("FIVE", Five), Item("__name__", Five),
                         Item("_hidden", Fn(other_foo)),
                         Item("bar", Fn(bar)), Item("foo", Fn(foo))>>) }

\* a registration call ended: with err, leaving registry
Registers(op, res) ==
    /\ reg.n < MaxOps
    /\ methods' = res.methods
    /\ reg' = [reg EXCEPT !.n = @ + 1, !.op = op, !.err = res.err, !.before = methods]
    /\ UNCHANGED <<mode, given, req, pc, call, resp, calls, raised, notif, out, acc, app, svc>>

AddMethod ==
    \E name \in RegNames, f \in RegCallables :
        Registers(RegOp("add_method", name, f, Source("list", <<>>), ""),
                  add_method(methods, name, f))

MethodDecorator ==
    \E f \in RegCallables :
        Registers(RegOp("method", f.name, f, Source("list", <<>>), ""),
                  Service_method(methods, f))

MethodDecoratorNamed ==
    \E name \in RegNames, f \in RegCallables :
        Registers(RegOp("method_named", name, f, Source("list", <<>>), ""),
                  Service_method_named(methods, name, f))

AddMethods ==
    \E src \in RegSources, prefix \in RegPrefixes :
        Registers(RegOp("add_methods", "", ping, src, prefix),
                  add_methods(methods, src, prefix))

GetMethods ==
    /\ reg.n < MaxOps
    /\ reg' = [reg EXCEPT !.n = @ + 1, !.op = RegOp("get_methods", "", ping, Source("list", <<>>), ""),
                          !.err = "", !.before = methods, !.snap = get_methods(methods)]
    /\ UNCHANGED <<mode, methods, given, req, pc, call, resp, calls, raised, notif, out, acc, app, svc>>

\* the caller changes the dict get_methods gave it: d[name] = f, del d[name]
\* or d.clear(); a change of the registry's own dict is a change of the registry
ChangeSnapshot ==
    /\ reg.n < MaxOps
    /\ reg.snap.held
    /\ \E d \in {Put(reg.snap.d, "foo", bar), Remove(reg.snap.d, "foo"), NoMethods} :
          /\ d # reg.snap.d
          /\ reg' = [reg EXCEPT !.n = @ + 1, !.op = RegOp("change_snapshot", "", ping, Source("list", <<>>), ""),
                                !.err = "", !.before = methods, !.snap.d = d]
          /\ methods' = IF reg.snap.shared THEN d ELSE methods
    /\ UNCHANGED <<mode, given, req, pc, call, resp, calls, raised, notif, out, acc, app, svc>>

NextReg ==
    \/ AddMethod \/ MethodDecorator \/ MethodDecoratorNamed
    \/ AddMethods \/ GetMethods \/ ChangeSnapshot

InitReg == Idle("registration")

SpecReg == InitReg /\ [][NextReg]_vars

(***************************************************************************)
(* What a request was constructed from, for stating the properties.        *)
(***************************************************************************)
\* the input is a pre-parsed value or raw text that parses
InputParses(i) == i.parsed # NoneTop \/ (i.raw.given /\ i.raw.wf)
\* the top-level value the input denotes
InputTop(i) == IF i.parsed # NoneTop THEN i.parsed ELSE i.raw.top
IsMapping(r) == InputParses(given[r]) /\ InputTop(given[r]).t = "dict"
\* the member k of the request, Absent when it has none
Member(r, k) ==
    IF k \in DOMAIN InputTop(given[r]).m THEN InputTop(given[r]).m[k] ELSE Absent
\* version "2.0", a string method, params absent or a list or a dict
ValidRequest(r) ==
    /\ IsMapping(r)
    /\ Member(r, "jsonrpc") = Str("2.0")
    /\ Member(r, "method").t = "str"
    /\ Member(r, "params").t \in {"absent", "list", "dict"}
IdIsNull(r) == Member(r, "id") \in {Absent, None}
\* handle_request has returned for r
Responded(r) == pc[r] = "responded"
\* the exception that ended the dispatch of r is not a JsonRpcError
EndedUnanticipated(r) == call[r].exc # NoExc /\ ~IsJsonRpcError(call[r].exc)
\* the dispatch of r ended in a JsonRpcError
EndedInTaxonomy(r) == call[r].exc # NoExc /\ IsJsonRpcError(call[r].exc)

(***************************************************************************)
(* Properties.                                                             *)
(***************************************************************************)

\* C1: whatever the request, the registry and the handler do, handle_request
\* ends by returning one SuccessResponse or ErrorResponse, and no exception
\* ever escapes it.
C1_AlwaysResponds ==
    /\ [](pc["r1"] # "raised")
    /\ [](Responded("r1") => resp["r1"].kind \in {"success", "error"})
    /\ <>Responded("r1")

\* a handler's SystemExit was turned into a response
C1_Witness ==
    Responded("r1") /\ raised["r1"].cls = "SystemExit" /\ resp["r1"].kind = "error"

\* C2: a request that is a mapping with jsonrpc "2.0" and id absent or null
\* gets the empty body, whether the dispatch ended in success, in a
\* JsonRpcError or in an unanticipated exception.
C2_NotificationBodyEmpty ==
    \A r \in Reqs :
        (out[r].read /\ IsMapping(r) /\ Member(r, "jsonrpc") = Str("2.0") /\ IdIsNull(r))
            => (out[r].exc = NoExc /\ out[r].body = EmptyBody)

\* a notification whose handler raised an unanticipated exception was read
C2_Witness ==
    /\ out["r1"].read /\ IsMapping("r1") /\ IdIsNull("r1")
    /\ EndedUnanticipated("r1") /\ raised["r1"] # NoExc

\* C3: for a valid request with a non-null id the body is not empty and
\* decodes to jsonrpc "2.0", the request's id and exactly one of result (the
\* handler's return value) or error (code, message and, only when it is not
\* null, data).
C3_BodyShape ==
    \A r \in Reqs :
        (out[r].read /\ ValidRequest(r) /\ ~IdIsNull(r)) =>
            /\ out[r].exc = NoExc
            /\ out[r].body # EmptyBody
            /\ LET m == json_loads_body(out[r].body)
               IN /\ m["jsonrpc"] = Str("2.0")
                  /\ m["id"] = Member(r, "id")
                  /\ IF call[r].exc = NoExc
                     THEN /\ DOMAIN m = {"jsonrpc", "id", "result"}
                          /\ m["result"] = call[r].result
                     ELSE /\ DOMAIN m = {"jsonrpc", "id", "error"}
                          /\ m["error"]["code"] = resp[r].code
                          /\ m["error"]["message"] = Str(resp[r].message)
                          /\ IF resp[r].data = None
                             THEN DOMAIN m["error"] = {"code", "message"}
                             ELSE /\ DOMAIN m["error"] = {"code", "message", "data"}
                                  /\ m["error"]["data"] = resp[r].data

\* a valid request with id 0 failed with an error that has no data
C3_Witness ==
    /\ out["r1"].read /\ ValidRequest("r1") /\ Member("r1", "id") = Num(0)
    /\ resp["r1"].kind = "error" /\ resp["r1"].data = None

C5_TaxonomyVerbatim ==
    \A r \in Reqs :
        (pc[r] \in {"responded", "raised"} /\ EndedInTaxonomy(r)) =>
            LET e == call[r].exc
            IN /\ resp[r].kind = "error"
               /\ resp[r].code = e.code
               /\ resp[r].message = e.message
               /\ resp[r].data = e.data
               /\ Response_dict(resp[r], req[r]).d["error"] =
                     IF e.data # None
                     THEN [k \in {"code", "message", "data"} |->
                              IF k = "code" THEN e.code
                              ELSE IF k = "message" THEN Str(e.message) ELSE e.data]
                     ELSE [k \in {"code", "message"} |->
                              IF k = "code" THEN e.code ELSE Str(e.message)]

\* a handler raised a JsonRpcError whose data is 0
C5_Witness ==
    /\ Responded("r1") /\ raised["r1"].cls = "JsonRpcError"
    /\ raised["r1"].data = Num(0)

\* C6: two dispatches of the same request against the same registry whose
\* handler raised different exceptions that are not JsonRpcErrors give the
\* same dict and the same body; the exception raised is kept in exc_info.
C6_NoLeak ==
    (/\ out["r1"].read /\ out["r2"].read
     /\ \A r \in Reqs : raised[r] # NoExc /\ ~IsJsonRpcError(raised[r])) =>
        /\ out["r1"].dexc = out["r2"].dexc
        /\ out["r1"].d = out["r2"].d
        /\ out["r1"].exc = out["r2"].exc
        /\ out["r1"].body = out["r2"].body
        /\ \A r \in Reqs : resp[r].exc_info = raised[r]

\* the handler raised NameError in one dispatch and SystemExit in the other,
\* and the body was sent
C6_Witness ==
    /\ out["r1"].read /\ out["r2"].read
    /\ raised["r1"].cls = "NameError" /\ raised["r2"].cls = "SystemExit"
    /\ out["r1"].body # EmptyBody

\* the request of r is a mapping whose jsonrpc member is not "2.0"
VersionNotSupported(r) == IsMapping(r) /\ Member(r, "jsonrpc") # Str("2.0")

\* C7 as stated: every request whose version is not "2.0", the absent member
\* included, gets -32600 with the message 'Only JSON-RPC version "2.0" is
\* supported.', no handler is invoked, it is no notification and its body is
\* not empty.
C7_Original ==
    \A r \in Reqs :
        VersionNotSupported(r) =>
            /\ calls[r] = 0
            /\ notif[r] # "True"
            /\ out[r].read => out[r].body # EmptyBody
            /\ Responded(r) =>
                  /\ resp[r].kind = "error"
                  /\ resp[r].code = Num(-32600)
                  /\ resp[r].message = "Only JSON-RPC version \"2.0\" is supported."

\* C7 as amended: the message is 'Only JSON-RPC version "2.0" is supported.'
\* when the jsonrpc member is present and is not "2.0", and 'Missing
\* "jsonrpc" member in request.' when it is absent; the rest is as stated.
C7_Amended ==
    \A r \in Reqs :
        VersionNotSupported(r) =>
            /\ calls[r] = 0
            /\ notif[r] # "True"
            /\ out[r].read => out[r].body # EmptyBody
            /\ Responded(r) =>
                  /\ resp[r].kind = "error"
                  /\ resp[r].code = Num(-32600)
                  /\ resp[r].message =
                        IF Member(r, "jsonrpc") = Absent
                        THEN "Missing \"jsonrpc\" member in request."
                        ELSE "Only JSON-RPC version \"2.0\" is supported."

\* a request with no jsonrpc member and no id was answered with a body
C7_Witness ==
    /\ IsMapping("r1") /\ Member("r1", "jsonrpc") = Absent /\ Member("r1", "id") = Absent
    /\ notif["r1"] = "False" /\ out["r1"].read /\ out["r1"].body # EmptyBody

\* the request of r is valid and names a registered method whose own
\* parameters the request's arguments do not match
ArgumentsDoNotBind(r) ==
    /\ ValidRequest(r)
    /\ pc[r] \notin {"received", "versionChecked", "methodRead", "argsRead"}
    /\ MethodDefined(Member(r, "method"), methods)
    /\ Bind(methods[Member(r, "method").s].params, call[r].args, call[r].kwargs) # ""

\* C8 as stated: the handler is invoked at most once and only when the
\* arguments bind against its declared signature; when they do not bind it is
\* not invoked and the response is -32602 with the mismatch as message.
C8_Original ==
    \A r \in Reqs :
        /\ calls[r] <= 1
        /\ calls[r] > 0 => Bind(call[r].func.params, call[r].args, call[r].kwargs) = ""
        /\ ArgumentsDoNotBind(r) =>
              /\ calls[r] = 0
              /\ Responded(r) =>
                    /\ resp[r].kind = "error"
                    /\ resp[r].code = Num(-32602)
                    /\ resp[r].message =
                          Bind(methods[Member(r, "method").s].params, call[r].args, call[r].kwargs)

\* C9: a valid request for a name that is not registered gets -32601 with the
\* message 'Method "<name>" is not defined.', and no handler is invoked.
C9_MethodNotFound ==
    \A r \in Reqs :
        (ValidRequest(r) /\ Member(r, "method").s \notin DOMAIN methods) =>
            /\ calls[r] = 0
            /\ Responded(r) =>
                  /\ resp[r].kind = "error"
                  /\ Response_dict(resp[r], req[r]).d["error"] =
                        [k \in {"code", "message"} |->
                            IF k = "code" THEN Num(-32601)
                            ELSE Str("Method \"" \o Member(r, "method").s \o "\" is not defined.")]

\* a request for "missing" was answered by a service that has other methods
C9_Witness ==
    /\ Responded("r1") /\ ValidRequest("r1") /\ Member("r1", "method") = Str("missing")
    /\ methods = UsageMethods /\ resp["r1"].kind = "error"

\* C10: is_notification never raises, and it is true exactly when the input
\* parses to a mapping whose jsonrpc is "2.0" and whose id is absent or null,
\* whatever method and params are.
C10_IsNotification ==
    \A r \in Reqs :
        /\ notif[r] # "raised"
        /\ notif[r] # "unread" =>
              ((notif[r] = "True") <=>
                  (IsMapping(r) /\ Member(r, "jsonrpc") = Str("2.0") /\ IdIsNull(r)))

\* a mapping with jsonrpc "2.0", no method and params that are no list or
\* dict was found to be a notification
C10_Witness ==
    /\ notif["r1"] = "True" /\ Member("r1", "method") = Absent
    /\ Member("r1", "params") = Bool(FALSE)

\* C11: reading dict and body of an ErrorResponse never fails; the id of the
\* error dict is the request's id member when the top level is a mapping
\* (null when it has none) and null otherwise; malformed raw text is
\* answered with code -32700, id null and a body that is not empty.
C11_ErrorDictNeverFails ==
    \A r \in Reqs :
        (out[r].read /\ resp[r].kind = "error") =>
            /\ out[r].dexc = NoExc
            /\ out[r].exc = NoExc
            /\ out[r].d["id"] =
                  IF IsMapping(r) /\ Member(r, "id") # Absent
                  THEN Member(r, "id") ELSE None
            /\ given[r].raw = Malformed =>
                  /\ resp[r].code = Num(-32700)
                  /\ out[r].d["id"] = None
                  /\ out[r].body # EmptyBody

\* the answer to malformed raw text was read
C11_Witness ==
    /\ given["r1"].raw = Malformed /\ out["r1"].read
    /\ resp["r1"].kind = "error" /\ out["r1"].body # EmptyBody

\* the request of r is valid but for params that are no list and no dict
ParamsInvalid(r) ==
    /\ IsMapping(r)
    /\ Member(r, "jsonrpc") = Str("2.0")
    /\ Member(r, "method").t = "str"
    /\ Member(r, "params").t \notin {"absent", "list", "dict"}

\* C20: for a valid request args are the params when they are a list and
\* empty otherwise, kwargs are the params when they are a dict and empty
\* otherwise, so at most one of them is not empty; params that are present
\* and neither a list nor a dict give InvalidRequest (-32600).
C20_ArgsAndKwargs ==
    \A r \in Reqs :
        /\ (ValidRequest(r) /\ Responded(r)) => call[r].args # None
        /\ (ValidRequest(r) /\ call[r].args # None) =>
              /\ call[r].args = IF Member(r, "params").t = "list"
                                THEN Member(r, "params") ELSE List(<<>>)
              /\ call[r].kwargs = IF Member(r, "params").t = "dict"
                                  THEN Member(r, "params") ELSE Dict(<<>>)
              /\ Len(call[r].args.items) = 0 \/ Len(call[r].kwargs.items) = 0
              /\ Member(r, "params") = Absent =>
                    (Len(call[r].args.items) = 0 /\ Len(call[r].kwargs.items) = 0)
        /\ ParamsInvalid(r) =>
              /\ call[r].args = None /\ calls[r] = 0
              /\ Responded(r) =>
                    /\ resp[r].kind = "error"
                    /\ resp[r].code = Num(-32600)
                    /\ resp[r].message = "\"params\" of request must be either object or array if present."

\* a request whose params are the dict {a, b} had its arguments read
C20_Witness ==
    /\ ValidRequest("r1") /\ Member("r1", "params") = DictOver({"a", "b"})
    /\ call["r1"].kwargs = DictOver({"a", "b"}) /\ call["r1"].args = List(<<>>)

\* the last call registered one callable under one name
RegistersOne == reg.op.kind \in {"add_method", "method", "method_named"}

\* C12: add_method with a name that is already registered fails with
\* ValueError and leaves the registry as it was.
C12_AddMethodDuplicate ==
    (reg.op.kind = "add_method" /\ reg.op.name \in DOMAIN reg.before) =>
        (reg.err = "ValueError" /\ methods = reg.before)

\* add_method was called with another callable for a registered name
C12_Witness ==
    /\ reg.op.kind = "add_method" /\ reg.op.name \in DOMAIN reg.before
    /\ reg.before[reg.op.name] # reg.op.f /\ reg.err = "ValueError"

\* the (name, callable) pairs a source of add_methods offers: own names for a
\* list, keys for a dict, attribute names without a leading underscore for
\* any other object
SourceEntries(src) ==
    {<<IF src.kind = "list" THEN src.items[i].v.f.name ELSE src.items[i].name,
       src.items[i].v.f>> :
        i \in {j \in 1..Len(src.items) :
                 /\ src.items[j].v.callable
                 /\ src.kind = "object" => ~StartsWithUnderscore(src.items[j].name)}}

Entries(d) == {<<k, d[k]>> : k \in DOMAIN d}

\* C13: on every registration path a second callable for a name that already
\* resolved to a callable, in an earlier call or earlier in the same bulk
\* call, makes the call fail; no callable is replaced or dropped unnoticed.
C13_Original ==
    /\ (RegistersOne /\ reg.op.name \in DOMAIN reg.before) =>
          (reg.err = "ValueError" /\ methods = reg.before)
    /\ reg.op.kind = "add_methods" =>
          /\ (\E e \in SourceEntries(reg.op.src) :
                 \/ reg.op.prefix \o e[1] \in DOMAIN reg.before
                 \/ \E e2 \in SourceEntries(reg.op.src) : e2[1] = e[1] /\ e2[2] # e[2])
             => reg.err # ""
          /\ \A k \in DOMAIN reg.before :
                 k \in DOMAIN methods /\ methods[k] = reg.before[k]
          /\ reg.err = "" =>
                 \A e \in SourceEntries(reg.op.src) :
                     /\ reg.op.prefix \o e[1] \in DOMAIN methods
                     /\ methods[reg.op.prefix \o e[1]] = e[2]

\* C18: get_methods returns a copy: a change of the returned dict leaves the
\* registry as it was, and get_methods returns the registry's entries.
C18_GetMethodsCopies ==
    /\ reg.op.kind = "change_snapshot" => methods = reg.before
    /\ reg.op.kind = "get_methods" => reg.snap.d = methods

\* the caller changed the dict it got from a registry that is not empty
C18_Witness ==
    /\ reg.op.kind = "change_snapshot" /\ methods # NoMethods
    /\ reg.snap.d # methods

\* C19: add_methods(source, prefix) on a registry with no conflicting names
\* adds exactly prefix + name -> c for every callable c the source offers;
\* entries that are not callable are skipped without error and nothing is
\* added without the prefix.
C19_Original ==
    ( /\ reg.op.kind = "add_methods"
      /\ \A e \in SourceEntries(reg.op.src) :
             reg.op.prefix \o e[1] \notin DOMAIN reg.before )
    => /\ reg.err = ""
       /\ Entries(methods) \ Entries(reg.before) =
             {<<reg.op.prefix \o e[1], e[2]>> : e \in SourceEntries(reg.op.src)}
       /\ Entries(reg.before) \subseteq Entries(methods)

\* the raw text of the Request is what parsed_request has to parse
ParsesRaw == given["r1"].parsed = NoneTop

C16_Original ==
    /\ acc.made = "ok" =>
          (given["r1"].raw.given # (given["r1"].parsed # NoneTop))
    /\ (acc.made # "no" /\ given["r1"] = NeitherInput) => acc.made = "ValueError"

\* C17: constructing an ApplicationError succeeds exactly when its code is
\* outside -32768..-32000; a code inside, both ends included, fails with
\* ValueError, and a code that is accepted is stored unchanged.
C17_ReservedCodes ==
    app.done =>
        /\ (app.code >= -32768 /\ app.code <= -32000) <=> app.raised = "ValueError"
        /\ (app.code <= -32769 \/ app.code >= -31999) <=>
              (app.raised = "" /\ app.e.cls = "ApplicationError" /\ app.e.code = Num(app.code))

\* both ends of the range were refused and the codes next to them accepted
C17_Witness ==
    /\ app.done /\ app.code \in {-32768, -32000} /\ app.raised = "ValueError"
    /\ {-32769, -31999} \subseteq Codes

\* C15: on a service that defines the two hooks every handled request ran
\* the hook before the call once, before the method was looked up, and the
\* call used what the hook returned (the default language when the request
\* names none); the hook after the call ran once on the response, also when
\* the call failed.
C15_Original ==
    svc.cls = "CustomService" =>
        \A r \in Reqs :
            /\ (ValidRequest(r) /\ pc[r] \in {"methodResolved", "argsBound", "invoked"}) =>
                  svc.before_calls = 1
            /\ (ValidRequest(r) /\ Responded(r)) =>
                  /\ svc.before_calls = 1 /\ svc.after_calls = 1
                  /\ (Member(r, "method") = Str("get_donut") /\ Member(r, "params") = Absent) =>
                        (resp[r].kind = "success" /\ call[r].kwargs = LanguageParams(1))

\* the callables add_methods went through, in the order of its loop
Looped(op) ==
    SelectSeq(MethodsOf(op.src).items, LAMBDA it : it.v.callable)

\* the place in the loop of the first name that was registered before the call
Conflict(op, before) ==
    Min({i \in 1..Len(Looped(op)) : op.prefix \o Looped(op)[i].name \in DOMAIN before})

\* C24: when add_methods fails on a name that is already registered, every
\* entry registered before the call keeps its callable, the entries of the
\* source before the conflicting one stay registered and those after it are
\* not registered.
C24_NoRollback ==
    (reg.op.kind = "add_methods" /\ reg.err = "ValueError") =>
        /\ \A k \in DOMAIN reg.before :
               k \in DOMAIN methods /\ methods[k] = reg.before[k]
        /\ \E i \in 1..Len(Looped(reg.op)) :
               reg.op.prefix \o Looped(reg.op)[i].name \in DOMAIN reg.before
        /\ \A i \in 1..Len(Looped(reg.op)) :
               LET name == reg.op.prefix \o Looped(reg.op)[i].name
               IN /\ i < Conflict(reg.op, reg.before) =>
                        (name \in DOMAIN methods /\ methods[name] = Looped(reg.op)[i].v.f)
                  /\ i > Conflict(reg.op, reg.before) =>
                        (name \in DOMAIN methods => name \in DOMAIN reg.before)

\* add_methods failed on its second callable of three
C24_Witness ==
    /\ reg.op.kind = "add_methods" /\ reg.err = "ValueError"
    /\ Len(Looped(reg.op)) = 3 /\ Conflict(reg.op, reg.before) = 2
    /\ methods # reg.before
    /\ reg.op.prefix \o Looped(reg.op)[3].name \notin DOMAIN methods

\* C23: -32602 comes from the binding step only: when the arguments bound
\* and the method then raised TypeError, or any other exception that is not
\* a JsonRpcError, the response is -32603 "Internal error." without data; a
\* response with -32602 means the binding failed and nothing was invoked.
C23_InvalidParamsOnlyFromBinding ==
    \A r \in Reqs :
        /\ (Responded(r) /\ calls[r] > 0 /\ raised[r] # NoExc /\ ~IsJsonRpcError(raised[r])) =>
              /\ resp[r].kind = "error"
              /\ resp[r].code = Num(-32603)
              /\ resp[r].message = "Internal error."
              /\ resp[r].data = None
        /\ (Responded(r) /\ resp[r].kind = "error" /\ resp[r].code = Num(-32602)) =>
              /\ calls[r] = 0
              /\ call[r].exc.cls = "InvalidParams"
              /\ BindError(call[r].func, call[r].args, call[r].kwargs) # ""
              /\ resp[r].message = BindError(call[r].func, call[r].args, call[r].kwargs)

\* the arguments bound, the method raised TypeError and the response is there
C23_Witness ==
    /\ Responded("r1") /\ calls["r1"] = 1 /\ raised["r1"].cls = "TypeError"
    /\ BindError(call["r1"].func, call["r1"].args, call["r1"].kwargs) = ""

\* the steps of a dispatch, in the order the claim gives them
StepOrder ==
    <<"parse", "mapping", "version", "method", "params", "lookup", "binding", "invocation">>

StepNumber(step) == CHOOSE i \in 1..Len(StepOrder) : StepOrder[i] = step

\* the arguments the params of the request stand for
ArgsOf(r) == IF Member(r, "params").t = "list" THEN Member(r, "params") ELSE List(<<>>)
KwargsOf(r) == IF Member(r, "params").t = "dict" THEN Member(r, "params") ELSE Dict(<<>>)

\* the steps the request of r cannot pass, whatever the other steps do
Defects(r) ==
    {step \in {"parse", "mapping", "version", "method", "params", "lookup", "binding"} :
        CASE step = "parse" -> ~InputParses(given[r])
          [] step = "mapping" -> InputParses(given[r]) /\ ~IsMapping(r)
          [] step = "version" -> Member(r, "jsonrpc") # Str("2.0")
          [] step = "method" -> Member(r, "method").t # "str"
          [] step = "params" -> Member(r, "params").t \notin {"absent", "list", "dict"}
          [] step = "lookup" ->
                Member(r, "method").t = "str" /\ Member(r, "method").s \notin DOMAIN methods
          [] step = "binding" ->
                /\ Member(r, "method").t = "str" /\ Member(r, "method").s \in DOMAIN methods
                /\ Bind(methods[Member(r, "method").s].sig, ArgsOf(r), KwargsOf(r)) # ""}

\* the earliest step the request of r fails, "invocation" when it fails none
EarliestDefect(r) ==
    IF Defects(r) = {} THEN "invocation"
    ELSE StepOrder[Min({StepNumber(step) : step \in Defects(r)})]

\* the code and the messages with which a step fails
StepCode(step) ==
    CASE step = "parse" -> Num(-32700)
      [] step \in {"mapping", "version", "method", "params"} -> Num(-32600)
      [] step = "lookup" -> Num(-32601)
      [] step = "binding" -> Num(-32602)

StepMessages(r, step) ==
    CASE step = "parse" -> {ParserMessage}
      [] step = "mapping" -> {"Expected an object as request body. Batch requests are not supported."}
      [] step = "version" -> {"Only JSON-RPC version \"2.0\" is supported.",
                              "Missing \"jsonrpc\" member in request."}
      [] step = "method" -> {"Missing \"method\" member in request.",
                             "\"method\" of request must be a string."}
      [] step = "params" -> {"\"params\" of request must be either object or array if present."}
      [] step = "lookup" -> {"Method \"" \o Member(r, "method").s \o "\" is not defined."}
      [] step = "binding" -> {Bind(methods[Member(r, "method").s].sig, ArgsOf(r), KwargsOf(r))}

\* the step a dispatch has passed when it is at pc
Passed(at) ==
    CASE at = "versionChecked" -> "version"
      [] at = "methodRead" -> "method"
      [] at = "argsRead" -> "params"
      [] at = "methodResolved" -> "lookup"
      [] at \in {"argsBound", "invoked"} -> "binding"
      [] OTHER -> "parse"

\* C21: a dispatch takes its steps in the order parse, mapping check, version
\* check, method read, params read, lookup, binding, invocation, and the
\* response of a request with several defects reports the earliest failing
\* step: a bad version with an unregistered method gives InvalidRequest, an
\* unregistered method with params that are no list and no dict gives
\* InvalidRequest and not MethodNotFound.
C21_EarliestStepReported ==
    \A r \in Reqs :
        /\ pc[r] \in {"versionChecked", "methodRead", "argsRead", "methodResolved",
                      "argsBound", "invoked"} =>
              StepNumber(EarliestDefect(r)) > StepNumber(Passed(pc[r]))
        /\ calls[r] > 0 => EarliestDefect(r) = "invocation"
        /\ Responded(r) =>
              IF EarliestDefect(r) = "invocation"
              THEN calls[r] = 1
              ELSE /\ calls[r] = 0
                   /\ resp[r].kind = "error"
                   /\ resp[r].code = StepCode(EarliestDefect(r))
                   /\ resp[r].message \in StepMessages(r, EarliestDefect(r))
        /\ (Responded(r) /\ {"version", "lookup"} \subseteq Defects(r)) =>
              resp[r].code = Num(-32600)
        /\ (Responded(r) /\ Defects(r) = {"params", "lookup"}) =>
              (resp[r].code = Num(-32600) /\ call[r].exc.cls = "InvalidRequest")

\* an unregistered method with params that are neither was answered
C21_Witness ==
    /\ Responded("r1") /\ Defects("r1") = {"params", "lookup"}
    /\ resp["r1"].code = Num(-32600)

\* C22: handle_request leaves the registry alone, and with the registry
\* fixed, however the steps of two handle_request calls on two Request
\* objects of one Service interleave, each request gets a response it can
\* get when it is dispatched alone; nothing an earlier dispatch did, failed
\* or not, changes it.
C22_DispatchesIndependent ==
    /\ [](\A r \in Reqs :
            /\ pc[r] # "raised"
            /\ Responded(r) =>
                  resp[r] \in handle_request(svc, methods,
                                             Request(given[r].raw, given[r].parsed)))
    /\ [][methods' = methods]_vars

\* r1 was answered with an error while the other dispatch, of another
\* request, is between binding and invocation
C22_Witness ==
    /\ Responded("r1") /\ resp["r1"].kind = "error"
    /\ pc["r2"] = "argsBound" /\ given["r1"] # given["r2"]

====
